---- MODULE Spec2Model ----
(***************************************************************************)
(* Model of the runner package: the multi-reader buffer                    *)
(* (multiReaderBuffer / multiBufferReader), the cancellable read wrapper   *)
(* (cancellableReader) and the keyword searches built on them              *)
(* (AccumulatedOutput.WaitForKeyword, StreamScanner.WaitForKeyword).       *)
(*                                                                         *)
(* One producer goroutine calls Write and Close on the buffer.  Every      *)
(* reader handle has one goroutine calling Read on it and one goroutine    *)
(* that may call Close on it.  sync.Mutex is the boolean locked; a         *)
(* critical section (Lock ... Unlock, or Lock ... cv.Wait) is one step,    *)
(* taken when the mutex is free.  cv.Wait parks the goroutine ("wait");    *)
(* cv.Broadcast moves every parked goroutine to "relock", from where it    *)
(* must take the mutex again before it re-evaluates the loop of Read.      *)
(***************************************************************************)
EXTENDS Integers, Sequences, FiniteSets, TLC

\* ------------------------------------------------------------------ bounds
\* Longest text the producer intends to write in the buffer-level model.
MaxBuf == 3
\* Longest payload of one Write call.
MaxWrite == 2
\* Largest len(p) of one direct Read call.
MaxRead == 2
\* Most helper goroutines of one wrapper that a cancellation has abandoned.
MaxOrphans == 2
\* The reader handles NewReader may return, in this order.  A handle's steps
\* read and write only the buffer and the handle's own fields, so two handles
\* show every way one handle can disturb another.
Handles == {1, 2}

\* The cancellation signals (context.Context values) the searches are given.
Ctxs == {1, 2}

Min(a, b) == IF a < b THEN a ELSE b

\* The text the producer writes, chunk by chunk, in the buffer-level model:
\* all bytes distinct, so that a duplicated, skipped or reordered byte shows.
BufSources == {[i \in 1..MaxBuf |-> i]}

VARIABLES
    src,      \* the text the producer writes from
    buf,      \* multiReaderBuffer.buf
    closed,   \* multiReaderBuffer.closed
    locked,   \* multiReaderBuffer.m is held
    wpc,      \* producer: "idle", or blocked at the Lock of "Write" / "Close"
    wp,       \* payload p of the Write in progress
    wret,     \* what the producer's last call returned
    wlog,     \* history: concatenation of the payloads of the successful writes
    nh,       \* number of handles NewReader has returned
    offset,   \* multiBufferReader.offset, per handle
    rclosed,  \* multiBufferReader.closed, per handle
    rpc,      \* position of the goroutine in Read, per handle
    rlen,     \* len(p) of the Read in progress
    rn,       \* local n of the Read in progress (bytes copied into p)
    rdata,    \* the bytes copied into p
    rret,     \* what the last Read on the handle returned
    got,      \* history: concatenation of the data the handle's Reads returned
    cpc,      \* position of the goroutine in multiBufferReader.Close, per handle
    mode,     \* who reads: "buf" direct callers of Read, "acc" calls of
              \* AccumulatedOutput.WaitForKeyword, "ss" calls on one StreamScanner,
              \* "cr" direct callers of Read on one cancellableReader
    fired,    \* per cancellation signal: ctx.Done() is closed
    spc,      \* position of the goroutine calling WaitForKeyword
    sctx,     \* ctx of the WaitForKeyword call in progress
    skw,      \* substr of the WaitForKeyword call in progress
    sh,       \* cancellableReader.reader: the handle the wrapper reads
    wctx,     \* cancellableReader.ctx
    sinit,    \* StreamScanner.reader != nil
    sdata,    \* bufio.Scanner: the bytes read so far, buf[0:end]
    sstart,   \* bufio.Scanner: start, the first byte no token has consumed
    serr,     \* bufio.Scanner: err
    stok,     \* bufio.Scanner: the last token, scanner.Text()
    sret,     \* what the last WaitForKeyword call returned
    preFired, \* history: the call's signal had fired when the call was made
    didRead,  \* history: the call has started a read of the wrapper
    mon,      \* history: how many calls so far, if they follow Script; else -1
    cancels,  \* history: an earlier search, or an earlier direct Read of the
              \* wrapper, returned the cancellation error
    sbegin,   \* history: the scanner's start when the search in progress began
    orph      \* the goroutines of earlier cancellableReader.Read calls that
              \* lost the select and have not reached the send on their retCh yet
              \* or are blocked in it: position and local n of each

histVars == <<preFired, didRead, mon, cancels, sbegin>>

scanVars == <<mode, fired, spc, sctx, skw, sh, wctx, sinit, sdata, sstart, serr,
              stok, sret, histVars, orph>>

vars == <<src, buf, closed, locked, wpc, wp, wret, wlog, nh, offset, rclosed,
          rpc, rlen, rn, rdata, rret, got, cpc, scanVars>>

bufVars == <<buf, closed, locked>>
prodVars == <<src, wpc, wp, wret, wlog>>
readVars == <<offset, rpc, rlen, rn, rdata, rret, got>>

Ret(n, err, data) == [n |-> n, err |-> err, data |-> data]
NoRet == Ret(0, "none", <<>>)

\* ------------------------------------------------------------------ buffer

\* A buffer that holds text, closed or not, with n handles that have not read;
\* no call is in progress.
InitBufferWith(text, done, n) ==
    /\ buf = text
    /\ closed = done
    /\ locked = FALSE
    /\ wpc = "idle"
    /\ wp = <<>>
    /\ wret = NoRet
    /\ wlog = text
    /\ nh = n
    /\ offset = [h \in Handles |-> 0]
    /\ rclosed = [h \in Handles |-> FALSE]
    /\ rpc = [h \in Handles |-> "idle"]
    /\ rlen = [h \in Handles |-> 0]
    /\ rn = [h \in Handles |-> 0]
    /\ rdata = [h \in Handles |-> <<>>]
    /\ rret = [h \in Handles |-> NoRet]
    /\ got = [h \in Handles |-> <<>>]
    /\ cpc = [h \in Handles |-> "idle"]

\* NewMultiReaderBuffer, and no handle yet.
InitBuffer == InitBufferWith(<<>>, FALSE, 0)

\* cv.Broadcast: every goroutine parked in cv.Wait is made runnable.
Broadcast == [h \in Handles |-> IF rpc[h] = "wait" THEN "relock" ELSE rpc[h]]

\* The next k bytes of the producer's text.
Chunk(k) == SubSeq(src, Len(buf) + 1, Min(Len(buf) + k, Len(src)))

\* Write, up to b.cv.L.Lock(): a zero-length write returns at once.
WriteCall(k) ==
    /\ wpc = "idle"
    /\ IF Len(Chunk(k)) = 0
       THEN /\ wret' = Ret(0, "nil", <<>>)
            /\ UNCHANGED <<wpc, wp>>
       ELSE /\ wpc' = "Write"
            /\ wp' = Chunk(k)
            /\ wret' = NoRet
    /\ UNCHANGED <<src, wlog, bufVars, nh, readVars, rclosed, cpc>>
    /\ UNCHANGED scanVars

\* The mutex after Write's return on a closed buffer: the return at line 38
\* leaves without b.cv.L.Unlock().
LockAfterRejectedWrite == TRUE

\* Mutant of WriteRejected: Write appends to a closed buffer.
WriteNeverRejected == FALSE

\* if b.closed: whether Write rejects the payload.
WriteRejected == closed

\* Write, from b.cv.L.Lock() to its return.
WriteLocked ==
    /\ wpc = "Write"
    /\ ~locked
    /\ IF WriteRejected
       THEN /\ locked' = LockAfterRejectedWrite
            /\ wret' = Ret(0, "ErrClosedPipe", <<>>)
            /\ UNCHANGED <<buf, wlog, rpc>>
       ELSE /\ buf' = buf \o wp
            /\ wlog' = wlog \o wp
            /\ rpc' = Broadcast
            /\ wret' = Ret(Len(wp), "nil", <<>>)
            /\ locked' = FALSE
    /\ wpc' = "idle"
    /\ wp' = <<>>
    /\ UNCHANGED <<src, closed, nh, offset, rclosed, rlen, rn, rdata, rret, got, cpc>>
    /\ UNCHANGED scanVars

\* multiReaderBuffer.Close, up to b.cv.L.Lock().
CloseCall ==
    /\ wpc = "idle"
    /\ wpc' = "Close"
    /\ wret' = NoRet
    /\ UNCHANGED <<src, wp, wlog, bufVars, nh, readVars, rclosed, cpc>>
    /\ UNCHANGED scanVars

\* multiReaderBuffer.Close, from b.cv.L.Lock() to its return.
CloseLocked ==
    /\ wpc = "Close"
    /\ ~locked
    /\ closed' = TRUE
    /\ rpc' = Broadcast
    /\ wret' = Ret(0, "nil", <<>>)
    /\ wpc' = "idle"
    /\ UNCHANGED <<src, wp, wlog, buf, locked, nh, offset, rclosed, rlen, rn,
                   rdata, rret, got, cpc>>
    /\ UNCHANGED scanVars

\* NewReader: a fresh handle, offset 0, not closed.
NewReader ==
    /\ mode = "buf"
    /\ nh < Cardinality(Handles)
    /\ nh' = nh + 1
    /\ UNCHANGED <<prodVars, bufVars, readVars, rclosed, cpc>>
    /\ UNCHANGED scanVars

\* ------------------------------------------------------------------ handle

\* Mutant of Avail: the slice starts one byte late.
AvailSkipsByte(h) == SubSeq(buf, offset[h] + 2, Len(buf))

\* Mutant of Avail: the slice ignores the cursor.
AvailFromStart(h) == buf

\* r.source.buf[r.offset:]
Avail(h) == SubSeq(buf, offset[h] + 1, Len(buf))

\* copy(p, r.source.buf[r.offset:]) for len(p) = rlen[h]
Copied(h) == SubSeq(Avail(h), 1, Min(rlen[h], Len(Avail(h))))

\* Where a Read that returns leaves its goroutine: back in its caller, or, for
\* the goroutine cancellableReader.Read started, at the send on retCh.
AfterRead(h) == IF mode = "buf" THEN "idle" ELSE "send"

\* Read returns (n, err) with data in p[0:n].
ReadReturn(h, n, err, data) ==
    /\ rret' = [rret EXCEPT ![h] = Ret(n, err, data)]
    /\ got' = [got EXCEPT ![h] = @ \o data]
    /\ rlen' = [rlen EXCEPT ![h] = 0]
    /\ rn' = [rn EXCEPT ![h] = 0]
    /\ rdata' = [rdata EXCEPT ![h] = <<>>]

\* Read, up to r.source.cv.L.Lock(): a zero-length read returns at once.
ReadCall(h, len) ==
    /\ mode = "buf"
    /\ h <= nh
    /\ rpc[h] = "idle"
    /\ IF len = 0
       THEN /\ rret' = [rret EXCEPT ![h] = Ret(0, "nil", <<>>)]
            /\ UNCHANGED <<rpc, rlen>>
       ELSE /\ rpc' = [rpc EXCEPT ![h] = "lock"]
            /\ rlen' = [rlen EXCEPT ![h] = len]
            /\ rret' = [rret EXCEPT ![h] = NoRet]
    /\ UNCHANGED <<prodVars, bufVars, nh, offset, rn, rdata, got, rclosed, cpc>>
    /\ UNCHANGED scanVars

\* Mutant of MustWait: the Read does not wait for data.
NeverWaits(h) == FALSE

\* n == 0 && !sourceClosed
MustWait(h) == Len(Copied(h)) = 0 /\ ~closed

\* Read, one pass of the loop with the mutex held: entered from Lock() or from
\* the Lock() that ends cv.Wait; left by the return at line 80, by cv.Wait
\* (which gives the mutex back) or by the break and Unlock() at line 90.
ReadLocked(h) ==
    /\ rpc[h] \in {"lock", "relock"}
    /\ ~locked
    /\ IF rclosed[h]
       THEN /\ ReadReturn(h, 0, "ErrClosedPipe", <<>>)
            /\ rpc' = [rpc EXCEPT ![h] = AfterRead(h)]
       ELSE IF MustWait(h)
       THEN /\ rpc' = [rpc EXCEPT ![h] = "wait"]
            /\ UNCHANGED <<rlen, rn, rdata, rret, got>>
       ELSE /\ rpc' = [rpc EXCEPT ![h] = "post"]
            /\ rn' = [rn EXCEPT ![h] = Len(Copied(h))]
            /\ rdata' = [rdata EXCEPT ![h] = Copied(h)]
            /\ UNCHANGED <<rlen, rret, got>>
    /\ UNCHANGED <<prodVars, bufVars, nh, offset, rclosed, cpc>>
    /\ UNCHANGED scanVars

\* Mutant of Advance: the cursor moves by len(p), not by the bytes copied.
AdvanceByLen(h) == offset[h] + rlen[h]

\* r.offset += n
Advance(h) == offset[h] + rn[h]

\* Read, after Unlock(): io.EOF for n = 0, else r.offset += n.
ReadPost(h) ==
    /\ rpc[h] = "post"
    /\ IF rn[h] = 0
       THEN /\ ReadReturn(h, 0, "EOF", <<>>)
            /\ UNCHANGED offset
       ELSE /\ offset' = [offset EXCEPT ![h] = Advance(h)]
            /\ ReadReturn(h, rn[h], "nil", rdata[h])
    /\ rpc' = [rpc EXCEPT ![h] = AfterRead(h)]
    /\ UNCHANGED <<prodVars, bufVars, nh, rclosed, cpc>>
    /\ UNCHANGED scanVars

\* multiBufferReader.Close, up to r.source.cv.L.Lock().
ReaderCloseCall(h) ==
    /\ mode = "buf"
    /\ h <= nh
    /\ cpc[h] = "idle"
    /\ cpc' = [cpc EXCEPT ![h] = "lock"]
    /\ UNCHANGED <<prodVars, bufVars, nh, readVars, rclosed>>
    /\ UNCHANGED scanVars

\* Mutant of CloseHandle: the flag is not set.
CloseNoHandle(h) == rclosed

\* Mutant of CloseHandle: every handle of the buffer is closed.
CloseAllHandles(h) == [g \in Handles |-> TRUE]

\* r.closed = true
CloseHandle(h) == [rclosed EXCEPT ![h] = TRUE]

\* multiBufferReader.Close, from r.source.cv.L.Lock() to its return.
ReaderCloseLocked(h) ==
    /\ cpc[h] = "lock"
    /\ ~locked
    /\ rclosed' = CloseHandle(h)
    /\ rpc' = Broadcast
    /\ cpc' = [cpc EXCEPT ![h] = "idle"]
    /\ UNCHANGED <<prodVars, bufVars, nh, offset, rlen, rn, rdata, rret, got>>
    /\ UNCHANGED scanVars

\* ------------------------------------------------------------------ search

\* '\n', the byte bufio.ScanLines splits at.
NL == "\n"

\* bufio.NewScanner's initial buffer: the first reads ask for up to 4096 bytes.
\* The texts here are far shorter, so the buffer is never shifted or grown.
ScanBufSize == 4096

\* The source of TestSearchSequence: one\ntwo\nthree\nfour\nfive
TestSource ==
    <<"o", "n", "e", NL, "t", "w", "o", NL, "t", "h", "r", "e", "e", NL,
      "f", "o", "u", "r", NL, "f", "i", "v", "e">>

\* The searches of TestSearchSequence, and what the test requires of each.
Script ==
    << <<"o", "n", "e">>, <<"t", "w", "o">>, <<"f", "o", "u", "r">>,
       <<"f", "i", "v", "e">>, <<"t", "h", "r", "e", "e">> >>
Expected == <<"nil", "nil", "nil", "nil", "KeywordNotFound">>

\* The text of a live producer: two lines, each of which may arrive whole, in
\* pieces, or not at all before the producer closes.
LiveSources == {<<"a", NL, "b", NL>>}

\* The substrings searched for.
Keywords(text) ==
    IF text = TestSource
    THEN {Script[i] : i \in 1..Len(Script)}
    ELSE {<<"a">>, <<"b">>}

\* strings.Contains(line, substr)
Contains(line, substr) ==
    \E i \in 0..(Len(line) - Len(substr)) :
        SubSeq(line, i + 1, i + Len(substr)) = substr

\* bytes.IndexByte(data, '\n'), counted from 1; 0 for none.
IndexNL(data) ==
    IF \E i \in 1..Len(data) : data[i] = NL
    THEN CHOOSE i \in 1..Len(data) :
            data[i] = NL /\ \A j \in 1..(i - 1) : data[j] # NL
    ELSE 0

\* bufio.ScanLines(data, atEOF): (advance, token), has for token != nil.
ScanLines(data, atEOF) ==
    IF atEOF /\ Len(data) = 0
    THEN [adv |-> 0, has |-> FALSE, tok |-> <<>>]
    ELSE IF IndexNL(data) > 0
    THEN [adv |-> IndexNL(data), has |-> TRUE,
          tok |-> SubSeq(data, 1, IndexNL(data) - 1)]
    ELSE IF atEOF
    THEN [adv |-> Len(data), has |-> TRUE, tok |-> data]
    ELSE [adv |-> 0, has |-> FALSE, tok |-> <<>>]

\* bufio.Scanner: buf[start:end], the bytes read that no token has consumed.
Unscanned == SubSeq(sdata, sstart + 1, Len(sdata))

\* bufio.NewScanner(cr): nothing read, no error.
FreshScanner ==
    /\ sdata' = <<>>
    /\ sstart' = 0
    /\ serr' = "nil"
    /\ stok' = <<>>

\* History: the position in Script after a call for kw.
MonNext(kw) ==
    IF /\ mode = "ss" /\ src = TestSource
       /\ mon >= 0 /\ mon < Len(Script) /\ kw = Script[mon + 1]
    THEN mon + 1
    ELSE -1

\* waitForKeyword(ctx, scanner, substr) is entered.
BeginSearch(c, kw) ==
    /\ spc' = "scan"
    /\ sctx' = c
    /\ skw' = kw
    /\ sret' = "none"
    /\ preFired' = fired[c]
    /\ didRead' = FALSE
    /\ mon' = MonNext(kw)
    /\ sbegin' = sstart'
    /\ UNCHANGED cancels

\* The select at the top of AccumulatedOutput.WaitForKeyword takes ctx.Done().
AccDone(c) == fired[c]

\* AccumulatedOutput.WaitForKeyword, up to the call of waitForKeyword: a fired
\* signal returns ctx.Err(); else a new handle, wrapper and scanner.
AccWaitForKeyword(c, kw) ==
    /\ mode = "acc"
    /\ spc = "idle"
    /\ IF AccDone(c)
       THEN /\ sret' = "Cancelled"
            /\ sctx' = c
            /\ skw' = <<>>
            /\ preFired' = fired[c]
            /\ didRead' = FALSE
            /\ mon' = MonNext(kw)
            /\ cancels' = TRUE
            /\ UNCHANGED <<spc, nh, sh, wctx, sdata, sstart, serr, stok, sbegin>>
       ELSE /\ nh < Cardinality(Handles)
            /\ nh' = nh + 1
            /\ sh' = nh + 1
            /\ wctx' = c
            /\ FreshScanner
            /\ BeginSearch(c, kw)
    /\ UNCHANGED <<prodVars, bufVars, readVars, rclosed, cpc, mode, fired, sinit,
                   orph>>

\* Mutant of NeedsInit: every call makes a new wrapper and scanner.
NeedsInitAlways == TRUE

\* s.reader == nil
NeedsInit == ~sinit

\* StreamScanner.WaitForKeyword, up to the call of waitForKeyword: the wrapper
\* and the scanner are made by the first call, with that call's ctx.
StreamWaitForKeyword(c, kw) ==
    /\ mode = "ss"
    /\ spc = "idle"
    /\ IF NeedsInit
       THEN /\ sinit' = TRUE
            /\ wctx' = c
            /\ FreshScanner
       ELSE UNCHANGED <<sinit, wctx, sdata, sstart, serr, stok>>
    /\ BeginSearch(c, kw)
    /\ UNCHANGED <<prodVars, bufVars, nh, readVars, rclosed, cpc, mode, fired, sh,
                   orph>>

\* waitForKeyword returns res; its arguments go out of scope.
SearchReturn(res) ==
    /\ spc' = "idle"
    /\ sret' = res
    /\ skw' = <<>>
    /\ cancels' = (cancels \/ res = "Cancelled")
    /\ sbegin' = 0

\* Mutant of SearchError: the check of scanner.Err() is left out.
SearchErrorIgnored == "KeywordNotFound"

\* scanner.Err(): io.EOF reads as no error, and the search then fails with
\* KeywordNotFound.
SearchError == IF serr = "EOF" THEN "KeywordNotFound" ELSE serr

\* One pass of waitForKeyword's loop, up to the point where scanner.Scan() has
\* to read: Scan yields the next token, which is examined (lines 113-123); or
\* Scan is false and lines 125-128 return; or cancellableReader.Read starts its
\* goroutine on r.reader.Read(p) and goes to the select.
ScanStep ==
    /\ spc = "scan"
    /\ LET t == ScanLines(Unscanned, serr # "nil")
       IN  IF t.has
           THEN /\ sstart' = sstart + t.adv
                /\ stok' = t.tok
                /\ IF Contains(t.tok, skw)
                   THEN SearchReturn("nil")
                   ELSE IF fired[sctx]
                   THEN SearchReturn("Cancelled")
                   ELSE UNCHANGED <<spc, sret, skw, cancels, sbegin>>
                /\ UNCHANGED <<rpc, rlen, rret, didRead>>
           ELSE IF serr # "nil"
           THEN /\ SearchReturn(SearchError)
                /\ UNCHANGED <<sstart, stok, rpc, rlen, rret, didRead>>
           ELSE /\ rpc[sh] = "idle"
                /\ rpc' = [rpc EXCEPT ![sh] = "lock"]
                /\ rlen' = [rlen EXCEPT ![sh] = ScanBufSize - Len(sdata)]
                /\ rret' = [rret EXCEPT ![sh] = NoRet]
                /\ didRead' = TRUE
                /\ spc' = "select"
                /\ UNCHANGED <<sstart, stok, sret, skw, cancels, sbegin>>
    /\ UNCHANGED <<prodVars, bufVars, nh, offset, rn, rdata, got, rclosed, cpc,
                   mode, fired, sctx, sh, wctx, sinit, sdata, serr,
                   preFired, mon, orph>>

\* Where cancellableReader.Read returns to: bufio.Scanner's Scan, or the direct
\* caller.
AfterWrapperRead == IF mode = "cr" THEN "idle" ELSE "scan"

\* cancellableReader.Read, case res := <-retCh, and the caller taking the
\* result: bufio.Scanner does end += n and keeps a non-nil err; a direct
\* caller keeps the bytes and the error likewise.
SelectResult ==
    /\ spc = "select"
    /\ rpc[sh] = "send"
    /\ rpc' = [rpc EXCEPT ![sh] = "idle"]
    /\ sdata' = sdata \o rret[sh].data
    /\ serr' = rret[sh].err
    /\ spc' = AfterWrapperRead
    /\ UNCHANGED <<prodVars, bufVars, nh, offset, rlen, rn, rdata, rret, got,
                   rclosed, cpc, mode, fired, sctx, skw, sh, wctx, sinit,
                   sstart, stok, sret, histVars, orph>>

\* cancellableReader.Read, case <-r.ctx.Done(): r.reader.Close() is called.
SelectCancel ==
    /\ spc = "select"
    /\ fired[wctx]
    /\ cpc' = [cpc EXCEPT ![sh] = "lock"]
    /\ spc' = "close"
    /\ UNCHANGED <<prodVars, bufVars, nh, readVars, rclosed, mode, fired, sctx,
                   skw, sh, wctx, sinit, sdata, sstart, serr, stok, sret,
                   histVars, orph>>

\* cancellableReader.Read returns (0, r.ctx.Err()) once r.reader.Close() has
\* returned, and bufio.Scanner keeps the error.
CancelReturn ==
    /\ spc = "close"
    /\ cpc[sh] = "idle"
    /\ serr' = "Cancelled"
    /\ spc' = AfterWrapperRead
    /\ cancels' = (cancels \/ mode = "cr")
    /\ UNCHANGED <<prodVars, bufVars, nh, readVars, rclosed, cpc, mode, fired,
                   sctx, skw, sh, wctx, sinit, sdata, sstart, stok, sret,
                   preFired, didRead, mon, sbegin, orph>>

\* A cancellation signal fires: the deadline passes or cancel() is called.
\* A wrapper read directly is given one signal, its own.
Fire(c) ==
    /\ mode # "buf"
    /\ mode = "cr" => c = wctx
    /\ ~fired[c]
    /\ fired' = [fired EXCEPT ![c] = TRUE]
    /\ UNCHANGED <<prodVars, bufVars, nh, readVars, rclosed, cpc, mode, spc,
                   sctx, skw, sh, wctx, sinit, sdata, sstart, serr, stok, sret,
                   histVars, orph>>

\* cancellableReader.Read called directly with len(p) = len, up to the select:
\* a new goroutine runs r.reader.Read(p), which returns at once for an empty
\* p.  The goroutine of an earlier call that lost the select is still there.
WrapperReadCall(len) ==
    /\ mode = "cr"
    /\ spc = "idle"
    /\ IF rpc[sh] = "idle"
       THEN UNCHANGED orph
       ELSE /\ Len(orph) < MaxOrphans
            /\ orph' = Append(orph, [pc |-> rpc[sh], n |-> rn[sh]])
    /\ IF len = 0
       THEN /\ rpc' = [rpc EXCEPT ![sh] = "send"]
            /\ rret' = [rret EXCEPT ![sh] = Ret(0, "nil", <<>>)]
       ELSE /\ rpc' = [rpc EXCEPT ![sh] = "lock"]
            /\ rret' = [rret EXCEPT ![sh] = NoRet]
    /\ rlen' = [rlen EXCEPT ![sh] = len]
    /\ rn' = [rn EXCEPT ![sh] = 0]
    /\ rdata' = [rdata EXCEPT ![sh] = <<>>]
    /\ spc' = "select"
    /\ UNCHANGED <<prodVars, bufVars, nh, offset, got, rclosed, cpc, mode, fired,
                   sctx, skw, sh, wctx, sinit, sdata, sstart, serr, stok, sret,
                   histVars>>

\* An abandoned goroutine's pass of the loop of multiBufferReader.Read with the
\* mutex held.  The call that abandoned it returned after r.reader.Close()
\* (line 82 precedes line 83), so the pass ends at the return of line 80, and
\* the goroutine then blocks in the send on a retCh nobody receives from.
OrphanLocked(i) ==
    /\ i \in 1..Len(orph)
    /\ orph[i].pc \in {"lock", "relock"}
    /\ ~locked
    /\ rclosed[sh]
    /\ orph' = [orph EXCEPT ![i] = [pc |-> "send", n |-> 0]]
    /\ UNCHANGED <<prodVars, bufVars, nh, readVars, rclosed, cpc, mode, fired,
                   spc, sctx, skw, sh, wctx, sinit, sdata, sstart, serr, stok,
                   sret, histVars>>

\* An abandoned goroutine past Unlock(): r.offset += n for n > 0, then the send.
OrphanPost(i) ==
    /\ i \in 1..Len(orph)
    /\ orph[i].pc = "post"
    /\ offset' = [offset EXCEPT ![sh] = @ + orph[i].n]
    /\ orph' = [orph EXCEPT ![i] = [pc |-> "send", n |-> 0]]
    /\ UNCHANGED <<prodVars, bufVars, nh, rpc, rlen, rn, rdata, rret, got,
                   rclosed, cpc, mode, fired, spc, sctx, skw, sh, wctx, sinit,
                   sdata, sstart, serr, stok, sret, histVars>>

\* ------------------------------------------------------------------ specification

\* No search: the scanner-level state stays as constructed.
InitScanner ==
    /\ fired = [c \in Ctxs |-> FALSE]
    /\ spc = "idle"
    /\ sctx = 1
    /\ skw = <<>>
    /\ sh = 1
    /\ wctx = 1
    /\ sinit = FALSE
    /\ sdata = <<>>
    /\ sstart = 0
    /\ serr = "nil"
    /\ stok = <<>>
    /\ sret = "none"
    /\ preFired = FALSE
    /\ didRead = FALSE
    /\ mon = 0
    /\ cancels = FALSE
    /\ sbegin = 0
    /\ orph = <<>>

Init ==
    /\ src \in BufSources
    /\ mode = "buf"
    /\ InitBuffer
    /\ InitScanner

Next ==
    \/ \E k \in 0..MaxWrite : WriteCall(k)
    \/ WriteLocked
    \/ CloseCall
    \/ CloseLocked
    \/ NewReader
    \/ \E h \in Handles : \E len \in 0..MaxRead : ReadCall(h, len)
    \/ \E h \in Handles : ReadLocked(h)
    \/ \E h \in Handles : ReadPost(h)
    \/ \E h \in Handles : ReaderCloseCall(h)
    \/ \E h \in Handles : ReaderCloseLocked(h)

Spec == Init /\ [][Next]_vars

\* The Go scheduler runs every runnable goroutine: a goroutine that can take
\* the mutex, or that is past it, takes its next step.  Nothing obliges the
\* callers to start a new call.
Fairness ==
    /\ WF_vars(WriteLocked)
    /\ WF_vars(CloseLocked)
    /\ \A h \in Handles : WF_vars(ReadLocked(h))
    /\ \A h \in Handles : WF_vars(ReadPost(h))
    /\ \A h \in Handles : WF_vars(ReaderCloseLocked(h))

FairSpec == Spec /\ Fairness

\* A search over a live stream: the producer has written nothing yet and the
\* searches go to the AccumulatedOutput, or to one StreamScanner on the
\* stream's first handle.  Or a StreamScanner over a complete stream, as
\* TestSearchSequence's strings.NewReader(source) is.
InitScan ==
    /\ InitScanner
    /\ \/ /\ src \in LiveSources
          /\ mode = "acc"
          /\ InitBufferWith(<<>>, FALSE, 0)
       \/ /\ src \in LiveSources
          /\ mode = "ss"
          /\ InitBufferWith(<<>>, FALSE, 1)
       \/ /\ src = TestSource
          /\ mode = "ss"
          /\ InitBufferWith(TestSource, TRUE, 1)

NextScan ==
    \/ \E k \in 0..MaxWrite : WriteCall(k)
    \/ WriteLocked
    \/ CloseCall
    \/ CloseLocked
    \/ \E h \in Handles : ReadLocked(h)
    \/ \E h \in Handles : ReadPost(h)
    \/ \E h \in Handles : ReaderCloseLocked(h)
    \/ \E c \in Ctxs : \E kw \in Keywords(src) : AccWaitForKeyword(c, kw)
    \/ \E c \in Ctxs : \E kw \in Keywords(src) : StreamWaitForKeyword(c, kw)
    \/ ScanStep
    \/ SelectResult
    \/ SelectCancel
    \/ CancelReturn
    \/ \E c \in Ctxs : Fire(c)

SpecScan == InitScan /\ [][NextScan]_vars

\* The goroutine in WaitForKeyword runs when it can: the select takes a case
\* that is ready.
FairnessScan ==
    /\ Fairness
    /\ WF_vars(ScanStep)
    /\ WF_vars(SelectResult \/ SelectCancel)
    /\ WF_vars(CancelReturn)

FairSpecScan == SpecScan /\ FairnessScan

\* A cancellableReader on the first handle of a live stream, with signal 1,
\* read directly by one caller.
InitWrap ==
    /\ InitScanner
    /\ src \in LiveSources
    /\ mode = "cr"
    /\ InitBufferWith(<<>>, FALSE, 1)

NextWrap ==
    \/ \E k \in 0..MaxWrite : WriteCall(k)
    \/ WriteLocked
    \/ CloseCall
    \/ CloseLocked
    \/ \E h \in Handles : ReadLocked(h)
    \/ \E h \in Handles : ReadPost(h)
    \/ \E h \in Handles : ReaderCloseLocked(h)
    \/ \E len \in 0..MaxRead : WrapperReadCall(len)
    \/ SelectResult
    \/ SelectCancel
    \/ CancelReturn
    \/ \E i \in 1..MaxOrphans : OrphanLocked(i)
    \/ \E i \in 1..MaxOrphans : OrphanPost(i)
    \/ \E c \in Ctxs : Fire(c)

SpecWrap == InitWrap /\ [][NextWrap]_vars

\* The caller of the wrapper's Read and the abandoned goroutines run when they
\* can.
FairnessWrap ==
    /\ Fairness
    /\ WF_vars(SelectResult \/ SelectCancel)
    /\ WF_vars(CancelReturn)
    /\ \A i \in 1..MaxOrphans : WF_vars(OrphanLocked(i))
    /\ \A i \in 1..MaxOrphans : WF_vars(OrphanPost(i))

FairSpecWrap == SpecWrap /\ FairnessWrap


\* ------------------------------------------------------------------ claims

InRead(h) == rpc[h] \in {"lock", "wait", "relock", "post"}
Blocked(h) == rpc[h] \in {"wait", "relock"}

\* C1: once the buffer is closed, a handle that has read up to end-of-stream has
\* received exactly the concatenation of the successful writes, in order,
\* whenever it was created and however its reads were sized and interleaved.
C1_ReadToEOFYieldsAllWrites ==
    \A h \in Handles : rret[h].err = "EOF" => (closed /\ got[h] = wlog)

\* A handle reached end-of-stream having received the whole text, written in at
\* least two writes, while the other handle is still part way through it.
C1_Witness ==
    \E h \in Handles : \E g \in Handles :
        /\ rret[h].err = "EOF" /\ got[h] = src /\ Len(src) > MaxWrite
        /\ g # h /\ g <= nh /\ offset[g] > 0 /\ offset[g] < Len(buf)

\* C2: a successful Read on a handle whose cursor is k returns exactly
\* content[k .. k+n) with 1 <= n <= min(len(p), len(content)-k) and moves the
\* cursor to k+n; what the handle has received is always content[0 .. cursor).
C2_ReadReturnsNextBytes ==
    [][\A h \in Handles :
        (rpc[h] = "post" /\ rpc'[h] # "post" /\ rret'[h].err = "nil") =>
            LET k == offset[h]
                n == rret'[h].n
            IN  /\ 1 <= n
                /\ n <= Min(rlen[h], Len(buf) - k)
                /\ rret'[h].data = SubSeq(buf', k + 1, k + n)
                /\ offset'[h] = k + n
                /\ got[h] = SubSeq(buf, 1, k)
                /\ got'[h] = SubSeq(buf', 1, k + n)]_vars

\* Both handles have read, one of them in two reads whose second started at a
\* cursor k > 0 and was cut short by len(p).
C2_Witness ==
    \E h \in Handles : \E g \in Handles :
        /\ g # h /\ offset[g] > 0
        /\ rret[h].err = "nil" /\ rret[h].n >= 1 /\ offset[h] > rret[h].n
        /\ offset[h] < Len(buf)

\* C3: a Read parked on a drained open buffer returns once a write has added
\* bytes or the buffer has been closed.
C3_BlockedReadReturns ==
    \A h \in Handles :
        (Blocked(h) /\ (Len(buf) > offset[h] \/ closed)) ~> (rpc[h] = "idle")

\* C4: a Read in progress on a handle that has been closed returns the
\* handle-closed error with 0 bytes.
C4_ClosedHandleReadReturns ==
    \A h \in Handles :
        (rclosed[h] /\ rpc[h] \in {"lock", "relock"})
            ~> (rpc[h] = "idle" /\ rret[h] = Ret(0, "ErrClosedPipe", <<>>))

\* C5: the step that closes one handle changes neither the buffer nor any other
\* handle, and returns no other handle's Read; a Read fails with the
\* handle-closed error only on a handle that was itself closed.
C5_ReaderCloseFrame ==
    /\ [][\A h \in Handles :
            (cpc[h] = "lock" /\ cpc'[h] = "idle") =>
                /\ buf' = buf /\ closed' = closed
                /\ \A g \in Handles \ {h} :
                    /\ offset'[g] = offset[g]
                    /\ rclosed'[g] = rclosed[g]
                    /\ rret'[g] = rret[g] /\ got'[g] = got[g]
                    /\ InRead(g) => InRead(g)']_vars
    /\ [](\A g \in Handles : rret[g].err = "ErrClosedPipe" => rclosed[g])

\* One handle is closed while a Read on the other, part way through the text,
\* is blocked and the other handle is open.
C5_Witness ==
    \E h \in Handles : \E g \in Handles :
        /\ g # h /\ rclosed[h] /\ cpc[h] = "idle" /\ ~rclosed[g]
        /\ Blocked(g) /\ offset[g] > 0

\* C6: a non-empty Write on a closed buffer returns (0, io.ErrClosedPipe) and
\* leaves the content as it is; a handle that has drained a closed buffer
\* receives nothing more.
C6_WriteAfterClose ==
    [][/\ (wpc = "Write" /\ closed /\ wpc' = "idle") =>
            (wret' = Ret(0, "ErrClosedPipe", <<>>) /\ buf' = buf)
       /\ closed => (buf' = buf /\ closed')
       /\ \A h \in Handles :
            (closed /\ offset[h] = Len(buf)) => got'[h] = got[h]]_vars

\* A Write was rejected after a handle had drained the closed buffer.
C6_Witness ==
    /\ wret.err = "ErrClosedPipe" /\ Len(buf) > 0
    /\ \E h \in Handles : rret[h].err = "EOF" /\ got[h] = buf

\* C7: a Write call returns, whatever the readers do.
C7_WriteReturns == (wpc = "Write") ~> (wpc = "idle")

\* C8: on one StreamScanner a line is consumed once: the scanner's position only
\* moves forward, by one line of the stream at a time, in a step of a search
\* that examines that line, and it is kept from one call to the next.  Over
\* one,two,three,four,five the searches one, two, four, five succeed and a
\* following search for three fails with KeywordNotFound.
C8_SearchesResume ==
    /\ [][(mode = "ss" /\ sstart' # sstart) =>
            LET len == Len(stok')
            IN  /\ spc = "scan"
                /\ sstart' > sstart
                /\ stok' = SubSeq(buf, sstart + 1, sstart + len)
                /\ \A i \in 1..len : stok'[i] # NL
                /\ \/ sstart' = sstart + len + 1 /\ buf[sstart'] = NL
                   \/ sstart' = sstart + len /\ serr # "nil"]_vars
    /\ []((mon >= 1 /\ spc = "idle" /\ \A c \in Ctxs : ~fired[c]) =>
            sret = Expected[mon])

\* The five searches of TestSearchSequence have returned, the last one with
\* KeywordNotFound.
C8_Witness ==
    /\ mon = Len(Script) /\ spc = "idle" /\ sret = "KeywordNotFound"
    /\ \A c \in Ctxs : ~fired[c]

\* C9: a search called with a signal that has already fired starts no read and
\* returns the cancellation error.
C9_FiredSignalFailsFast ==
    /\ preFired => ~didRead
    /\ (preFired /\ spc = "idle" /\ sret # "none") => sret = "Cancelled"

\* C10: on a stream that stays open, a search whose signal fires while it
\* waits for data returns.
C10_SearchReturnsOnSignal ==
    ([]~closed) =>
        ((spc = "select" /\ ~preFired /\ fired[sctx]) ~> (spc = "idle"))

\* text holds a line that contains kw: a run of bytes without '\n' that starts
\* the text or follows a '\n', and is ended by a '\n' or, for a final text, by
\* its end.
LineIn(text, kw, final) ==
    \E i \in 1..Len(text) : \E j \in i..Len(text) :
        /\ (i = 1 \/ text[i - 1] = NL)
        /\ \A k \in i..j : text[k] # NL
        /\ (IF j < Len(text) THEN text[j + 1] = NL ELSE final)
        /\ Contains(SubSeq(text, i, j), kw)

\* A search on the AccumulatedOutput made after an earlier one returned the
\* cancellation error, with a signal that has not fired.
Retrying == mode = "acc" /\ cancels /\ spc # "idle" /\ ~fired[sctx]

\* C11: after a search on an AccumulatedOutput returned the cancellation error,
\* a later search on it whose signal does not fire returns found once a line
\* with the keyword has been written, and returns KeywordNotFound once the
\* stream has been closed without such a line.
C11_RetryAfterCancel ==
    /\ (Retrying /\ LineIn(buf, skw, closed))
            ~> ((spc = "idle" /\ sret = "nil") \/ fired[sctx])
    /\ (Retrying /\ closed /\ ~LineIn(buf, skw, TRUE))
            ~> ((spc = "idle" /\ sret = "KeywordNotFound") \/ fired[sctx])

\* A step in which a search that was scanning returns.
Returns == spc # "idle" /\ spc' = "idle"

\* C12: a search returns KeywordNotFound only when the stream is closed, the
\* scanner has read it to end-of-stream and consumed all of it, and no line
\* from where the search began to the end contains the substring; a search
\* whose read failed with the cancellation or any other error never returns
\* it; a search returns found only on a scanned token of the stream, not
\* before where the search began, that contains the substring.
C12_NotFoundOnlyAtEndOfStream ==
    [][/\ (Returns /\ sret' = "KeywordNotFound") =>
            /\ closed /\ serr = "EOF"
            /\ sdata = buf /\ sstart = Len(buf)
            /\ ~LineIn(SubSeq(buf, sbegin + 1, Len(buf)), skw, TRUE)
       /\ (Returns /\ serr \notin {"nil", "EOF"}) => sret' # "KeywordNotFound"
       /\ (Returns /\ sret' = "nil") =>
            /\ Contains(stok', skw)
            /\ sstart >= sbegin
            /\ stok' = SubSeq(buf, sstart + 1, sstart + Len(stok'))]_vars

\* A search of a live stream returned KeywordNotFound after an earlier search
\* was cancelled: the stream was closed after its first line, which the search
\* scanned to the end.
C12_Witness ==
    /\ src \in LiveSources /\ cancels
    /\ spc = "idle" /\ sret = "KeywordNotFound"
    /\ closed /\ Len(buf) >= 2 /\ sstart = Len(buf)

\* C13: the wrapper's Read takes the underlying read's result only as it is,
\* (n, err) unchanged; it takes the cancellation branch only once its signal
\* has fired, and then closes the handle and returns (0, cancellation error);
\* and having taken that branch it returns, whatever the abandoned read, the
\* producer and the buffer's lock are doing.
C13_WrapperReadResolves ==
    /\ [][/\ (spc = "select" /\ spc' = AfterWrapperRead) =>
               /\ rpc[sh] = "send"
               /\ serr' = rret[sh].err
               /\ sdata' = sdata \o rret[sh].data
               /\ Len(rret[sh].data) = rret[sh].n
          /\ (spc = "select" /\ spc' = "close") => fired[wctx]
          /\ (spc = "close" /\ spc' = AfterWrapperRead) =>
               /\ rclosed[sh]
               /\ serr' = "Cancelled"
               /\ sdata' = sdata]_vars
    /\ (spc = "close") ~> (spc = AfterWrapperRead)

\* A step in which a direct Read of the wrapper returns to its caller.
WrapperReturns == mode = "cr" /\ spc # "idle" /\ spc' = "idle"

\* The underlying Read of the wrapper's Read in progress was given an empty p:
\* it returned (0, nil) at lines 71-73.
EmptyP == rpc[sh] = "send" /\ rret[sh] = Ret(0, "nil", <<>>)

\* C14 as claimed: once a Read of the wrapper has returned the cancellation
\* error the handle is closed, and every later Read of the wrapper (with a
\* non-empty p) returns (0, handle-closed error).
C14_LaterReadsSeeHandleClosed ==
    /\ [](cancels => rclosed[sh])
    /\ [][(cancels /\ WrapperReturns /\ ~EmptyP) =>
            (serr' = "ErrClosedPipe" /\ sdata' = sdata)]_vars

\* C14 amended: once a Read of the wrapper has returned the cancellation error
\* the handle is closed, and every later Read of the wrapper returns 0 bytes
\* and does not resume the stream: its error is the handle-closed error, or
\* the cancellation error again when the select takes the fired signal, or
\* none when p is empty.
C14_LaterReadsReturnNoData ==
    /\ [](cancels => rclosed[sh])
    /\ [][(cancels /\ WrapperReturns) =>
            /\ sdata' = sdata
            /\ \/ serr' \in {"ErrClosedPipe", "Cancelled"}
               \/ serr' = "nil" /\ EmptyP]_vars

\* After a cancelled Read, a later Read of the wrapper returned the
\* handle-closed error although the stream holds bytes the handle has not read.
C14_Witness ==
    /\ mode = "cr" /\ cancels /\ spc = "idle" /\ serr = "ErrClosedPipe"
    /\ offset[sh] < Len(buf)

\* The goroutines started by Reads of the wrapper whose select took the
\* cancellation branch, and that have not terminated.
Abandoned ==
    Len(orph) + (IF spc \in {"close", "idle"} /\ rpc[sh] # "idle" THEN 1 ELSE 0)

\* C15: whenever the cancellation branch of the wrapper's Read wins, the
\* goroutine started for the underlying read terminates: no such goroutine is
\* left for ever.
C15_AbandonedHelperTerminates == (spc = "close") ~> (Abandoned = 0)

\* A later call on the StreamScanner, made with another signal than the first
\* call's, is parked in a read of the open, drained stream, and its signal,
\* not fired when the call was made, has fired; the first call's has not.
LaterCallSignalled ==
    /\ mode = "ss" /\ sctx # wctx /\ ~preFired /\ fired[sctx] /\ ~fired[wctx]
    /\ spc = "select" /\ rpc[sh] = "wait"

\* C16: a later call on a StreamScanner whose own signal fires while it is
\* parked in a read of an open, drained stream returns the cancellation error,
\* unless the stream is written to or closed, or the first call's signal
\* fires, before it does.
C16_LaterCallAborted ==
    LaterCallSignalled
        ~> \/ spc = "idle" /\ sret = "Cancelled"
           \/ closed
           \/ Len(buf) > offset[sh]
           \/ fired[wctx]

\* C17: in every step the buffer's content keeps its bytes and only gains
\* bytes at the end, the buffer's closed flag stays set once set, and no
\* handle's cursor moves back; in every state each cursor lies in
\* 0 .. len(content).
C17_ContentAndCursorsMonotone ==
    /\ [][/\ Len(buf') >= Len(buf)
          /\ SubSeq(buf', 1, Len(buf)) = buf
          /\ closed => closed'
          /\ \A h \in Handles : offset'[h] >= offset[h]]_vars
    /\ [](\A h \in Handles : 0 <= offset[h] /\ offset[h] <= Len(buf))

\* The buffer was written in more than one write and closed; one handle's
\* cursor is at the end, the other's strictly inside the content.
C17_Witness ==
    /\ closed /\ Len(buf) > MaxWrite
    /\ \E h \in Handles : \E g \in Handles :
        /\ offset[h] = Len(buf)
        /\ 0 < offset[g] /\ offset[g] < Len(buf)

\* The buffer is closed and the handle has read all of it.
Drained(h) == closed /\ offset[h] = Len(buf)

\* A step in which a Read that took the handle's lock path (len(p) > 0)
\* returns to its caller.
ReadReturns(h) == rpc[h] \in {"lock", "relock", "post"} /\ rpc'[h] = "idle"

\* C18: a Read returns end-of-stream only when the buffer is closed and the
\* handle's cursor is at the end of the content; a Read of an open handle that
\* finds unread bytes returns at least one of them, closed buffer or not; and
\* a handle that was returned end-of-stream is drained for good, and every
\* Read of a drained open handle returns (0, end-of-stream).
C18_EndOfStreamOnlyWhenDrained ==
    /\ [][\A h \in Handles :
            /\ Drained(h) => Drained(h)'
            /\ ReadReturns(h) =>
                /\ rret'[h].err = "EOF" =>
                        (Drained(h) /\ rret'[h] = Ret(0, "EOF", <<>>))
                /\ (rpc[h] = "post" /\ offset[h] < Len(buf)) =>
                        (rret'[h].err = "nil" /\ rret'[h].n >= 1)
                /\ (Drained(h) /\ ~rclosed[h]) =>
                        rret'[h] = Ret(0, "EOF", <<>>)
            /\ (rpc[h] \in {"lock", "relock"} /\ rpc'[h] # rpc[h]
                    /\ ~rclosed[h] /\ offset[h] < Len(buf)) =>
                    (rpc'[h] = "post" /\ rn'[h] >= 1)]_vars
    /\ [](\A h \in Handles : rret[h].err = "EOF" => Drained(h))

\* One handle was returned end-of-stream on a closed buffer that holds bytes,
\* while a Read of the other handle, part way through the content, is about to
\* return bytes of the closed buffer.
C18_Witness ==
    \E h \in Handles : \E g \in Handles :
        /\ g # h /\ rret[h].err = "EOF" /\ Len(buf) >= 2
        /\ rpc[g] = "post" /\ rn[g] >= 1 /\ offset[g] > 0

\* No Write or buffer Close, and no Read or Close of any handle, is in
\* progress, and no Read is parked in cv.Wait.
Quiescent ==
    /\ wpc = "idle"
    /\ \A h \in Handles : rpc[h] = "idle" /\ cpc[h] = "idle"

\* C19: every operation gives the buffer's mutex back on every return path:
\* when no operation is in progress and no reader waits, the mutex is free.
C19_LockFreeWhenQuiescent == Quiescent => ~locked

\* C20: on a StreamScanner none of whose calls was cancelled so far, a call
\* closes the underlying handle, or returns the cancellation error, only if
\* the signal given to that call has fired.
C20_OwnSignalOnly ==
    /\ []((mode = "ss" /\ ~cancels /\ spc = "close") => fired[sctx])
    /\ [][(mode = "ss" /\ ~cancels /\ Returns /\ sret' = "Cancelled") =>
            fired[sctx]]_vars

====
